---------------------------- MODULE Spec2Model ----------------------------
(***************************************************************************)
(* photo-report (main.py): a report of photo counts is parsed line by     *)
(* line into Entry records, and every entry is written, colour-coded,     *)
(* into the cell of a workbook that its category, location and question   *)
(* number select.                                                         *)
(*                                                                         *)
(* Text is modelled as a sequence of one-character strings, so that the   *)
(* regular expressions of the program are matched character by character. *)
(***************************************************************************)
EXTENDS Integers, Sequences, FiniteSets, TLC

(***************************************************************************)
(* Characters, as Python's re sees them (ASCII part).                     *)
(***************************************************************************)
None == "None"

UpperCase == <<"A","B","C","D","E","F","G","H","I","J","K","L","M",
               "N","O","P","Q","R","S","T","U","V","W","X","Y","Z">>
LowerCase == <<"a","b","c","d","e","f","g","h","i","j","k","l","m",
               "n","o","p","q","r","s","t","u","v","w","x","y","z">>
DigitChars == <<"0","1","2","3","4","5","6","7","8","9">>

Range(f) == {f[x] : x \in DOMAIN f}
Max(S) == CHOOSE x \in S : \A y \in S : y <= x
Min(S) == CHOOSE x \in S : \A y \in S : x <= y

UpperSet == Range(UpperCase)
LowerSet == Range(LowerCase)
DigitSet == Range(DigitChars)
SpaceSet == {" ", "\t", "\n", "\r", "\f"}
WordSet == UpperSet \cup LowerSet \cup DigitSet \cup {"_"}
ToLower == [c \in UpperSet |-> LowerCase[CHOOSE k \in 1..26 : UpperCase[k] = c]]
ToUpper == [c \in LowerSet |-> UpperCase[CHOOSE k \in 1..26 : LowerCase[k] = c]]
ToDigit == [c \in DigitSet |-> (CHOOSE k \in 1..10 : DigitChars[k] = c) - 1]

IsUpper(c) == c \in UpperSet
IsLower(c) == c \in LowerSet
IsDigit(c) == c \in DigitSet
IsSpace(c) == c \in SpaceSet
IsWord(c) == c \in WordSet

\* str.lower() and str.upper() on one character
LowerChar(c) == IF IsUpper(c) THEN ToLower[c] ELSE c
UpperChar(c) == IF IsLower(c) THEN ToUpper[c] ELSE c
DigitVal(c) == ToDigit[c]

Lower(s) == [k \in 1..Len(s) |-> LowerChar(s[k])]
Upper(s) == [k \in 1..Len(s) |-> UpperChar(s[k])]
\* str.capitalize(): first character upper-cased, the rest lower-cased
Capitalize(s) == [k \in 1..Len(s) |-> IF k = 1 THEN UpperChar(s[k]) ELSE LowerChar(s[k])]

\* int() of a run of decimal digits (leading zeros allowed)
RECURSIVE IntOf(_)
IntOf(ds) == IF ds = <<>> THEN 0
             ELSE 10 * IntOf(SubSeq(ds, 1, Len(ds) - 1)) + DigitVal(ds[Len(ds)])

(***************************************************************************)
(* Pieces of a regular-expression match.  A position p is the index of    *)
(* the next character to read (1..Len(s)+1).  A piece gives the position  *)
(* after what it matched; 0 means "no match", and a piece started at 0    *)
(* gives 0.                                                               *)
(***************************************************************************)
\* the position after the maximal run of whitespace, or of digits, from p
SkipSpace(s, p) == Min({q \in p..(Len(s) + 1) : q = Len(s) + 1 \/ ~IsSpace(s[q])})
SkipDigits(s, p) == Min({q \in p..(Len(s) + 1) : q = Len(s) + 1 \/ ~IsDigit(s[q])})
\* \s*
Spaces0(s, p) == IF p = 0 THEN 0 ELSE SkipSpace(s, p)
\* \s+
Spaces1(s, p) == IF p = 0 \/ SkipSpace(s, p) = p THEN 0 ELSE SkipSpace(s, p)
\* \d+ (greedy; what follows it in the patterns is never a digit)
Digits1(s, p) == IF p = 0 \/ SkipDigits(s, p) = p THEN 0 ELSE SkipDigits(s, p)
\* one character
Char(s, p, c) == IF p >= 1 /\ p <= Len(s) /\ s[p] = c THEN p + 1 ELSE 0
\* [A-Z] under re.IGNORECASE
Letter(s, p) == IF p >= 1 /\ p <= Len(s) /\ (IsUpper(s[p]) \/ IsLower(s[p])) THEN p + 1 ELSE 0
\* a literal word under re.IGNORECASE; w is given in lower case
Lit(s, p, w) ==
    IF p >= 1 /\ p + Len(w) - 1 <= Len(s) /\ Lower(SubSeq(s, p, p + Len(w) - 1)) = w
    THEN p + Len(w) ELSE 0
\* an alternation of literal words (at most one of them fits)
LitAny(s, p, words) ==
    IF \E w \in words : Lit(s, p, w) # 0
    THEN Lit(s, p, CHOOSE w \in words : Lit(s, p, w) # 0) ELSE 0
\* \b between the characters p-1 and p
WordAt(s, p) == p >= 1 /\ p <= Len(s) /\ IsWord(s[p])
Boundary(s, p) == WordAt(s, p - 1) # WordAt(s, p)
WordEdge(s, p) == IF p # 0 /\ Boundary(s, p) THEN p ELSE 0
\* . (any character but a newline) on every position of p..q-1
NoNewline(s, p, q) == \A k \in p..(q - 1) : s[k] # "\n"

(***************************************************************************)
(* Words of the two grammars, in lower case.                              *)
(***************************************************************************)
wPictures == <<"p","i","c","t","u","r","e","s">>
wBlock == <<"b","l","o","c","k">>
wGround == <<"g","r","o","u","n","d">>
wLevel == <<"l","e","v","e","l">>
wElevation == <<"e","l","e","v","a","t","i","o","n">>
wNorth == <<"n","o","r","t","h">>
wSouth == <<"s","o","u","t","h">>
wEast == <<"e","a","s","t">>
wWest == <<"w","e","s","t">>
wBW == <<"b","w">>
wSR == <<"s","r">>
SideWords == {wNorth, wSouth, wEast, wWest}
KindWords == {wBW, wSR}

(***************************************************************************)
(* LINE_RE and parse_txt.  The pattern is followed element by element;   *)
(* each operator gives the position reached when the pattern is tried at  *)
(* position p of s.  A match is <<groups>>, no match is <<>>.             *)
(***************************************************************************)
\* ^ without re.MULTILINE: only the start of the line
Anchor_anywhere(p) == TRUE
Anchor(p) == p = 1

\* \s*-\s* : the dash is required
Dash(s, p) == Spaces0(s, Char(s, Spaces0(s, p), "-"))

\* \d{1,2} before \s+ : one or two digits (a third digit is no whitespace)
Digits1or2(s, p) ==
    IF Digits1(s, p) = 0 THEN 0
    ELSE IF Digits1(s, p) > p + 2 THEN p + 2 ELSE Digits1(s, p)

\* ^\s*(?P<count>\d+)\s+pictures\s*-\s*
AtCount(s, p) == Spaces0(s, p)
AfterCount(s, p) == Digits1(s, AtCount(s, p))
AfterPictures(s, p) == Lit(s, Spaces1(s, AfterCount(s, p)), wPictures)
AfterDash(s, p) == Dash(s, AfterPictures(s, p))
\* Block\s+(?P<block>[A-Z])\s+
AtBlock(s, p) == Spaces1(s, Lit(s, AfterDash(s, p), wBlock))
AfterBlock(s, p) == Letter(s, AtBlock(s, p))
\* L(?P<level>\d{1,2})\s+
AtLevel(s, p) == Lit(s, Spaces1(s, AfterBlock(s, p)), <<"l">>)
AfterLevel(s, p) == Digits1or2(s, AtLevel(s, p))
\* (?P<side>North|South|East|West)\s+
AtSide(s, p) == Spaces1(s, AfterLevel(s, p))
AfterSide(s, p) == LitAny(s, AtSide(s, p), SideWords)
\* (?P<kind>BW|SR)\b
AtKind(s, p) == Spaces1(s, AfterSide(s, p))
AfterKind(s, p) == WordEdge(s, LitAny(s, AtKind(s, p), KindWords))

\* /\s*(?P<qnum>\d+)\b at position j: the position after the digits
QnumAt(s, j) == WordEdge(s, Digits1(s, Spaces0(s, Char(s, j, "/"))))
\* .*?/\s*(\d+)\b from position t: the first "/" that the rest matches at
FirstQnum(s, t) ==
    IF t = 0 \/ \A j \in t..Len(s) : ~(NoNewline(s, t, j) /\ QnumAt(s, j) # 0) THEN 0
    ELSE Min({j \in t..Len(s) : NoNewline(s, t, j) /\ QnumAt(s, j) # 0})
AtSlash(s, p) == FirstQnum(s, AfterKind(s, p))

LineMatchAt(s, p) ==
    IF AtSlash(s, p) = 0 THEN <<>>
    ELSE << [count |-> SubSeq(s, AtCount(s, p), AfterCount(s, p) - 1),
             block |-> SubSeq(s, AtBlock(s, p), AfterBlock(s, p) - 1),
             level |-> SubSeq(s, AtLevel(s, p), AfterLevel(s, p) - 1),
             side  |-> SubSeq(s, AtSide(s, p), AfterSide(s, p) - 1),
             kind  |-> SubSeq(s, AtKind(s, p), AfterKind(s, p) - 1),
             qnum  |-> SubSeq(s, Spaces0(s, AtSlash(s, p) + 1),
                              QnumAt(s, AtSlash(s, p)) - 1)] >>

\* LINE_RE.search(raw): the leftmost position the pattern matches at
LINE_RE_search(raw) ==
    IF \A p \in 1..(Len(raw) + 1) : ~(Anchor(p) /\ LineMatchAt(raw, p) # <<>>) THEN <<>>
    ELSE LineMatchAt(raw, Min({p \in 1..(Len(raw) + 1) :
                                 Anchor(p) /\ LineMatchAt(raw, p) # <<>>}))

\* the Entry built from a match
Entry(m) == [block |-> Upper(m.block),
             level |-> IntOf(m.level),
             side  |-> Capitalize(m.side),
             qnum  |-> IntOf(m.qnum),
             count |-> IntOf(m.count),
             kind  |-> Upper(m.kind)]

\* the entries that a line adds to the list: <<Entry>>, or <<>>
EntryOf(raw) ==
    IF LINE_RE_search(raw) = <<>> THEN <<>> ELSE <<Entry(LINE_RE_search(raw)[1])>>

(***************************************************************************)
(* The texts of a workbook (sheet titles and cell values) are strings;    *)
(* Chars spells each of them out, character by character.                 *)
(***************************************************************************)
Chars ==
    ("Brickwork" :> <<"B","r","i","c","k","w","o","r","k">>) @@
    ("Side Rise" :> <<"S","i","d","e"," ","R","i","s","e">>) @@
    ("BRICKWORK-SideRaise" :> <<"B","R","I","C","K","W","O","R","K","-","S","i","d","e","R","a","i","s","e">>) @@
    ("Summary" :> <<"S","u","m","m","a","r","y">>) @@
    ("Location" :> <<"L","o","c","a","t","i","o","n">>) @@
    ("Notes" :> <<"N","o","t","e","s">>) @@
    ("4 All Clean" :> <<"4"," ","A","l","l"," ","C","l","e","a","n">>) @@
    ("4All" :> <<"4","A","l","l">>) @@
    (" 05 Mortar" :> <<" ","0","5"," ","M","o","r","t","a","r">>) @@
    ("4 Location" :> <<"4"," ","L","o","c","a","t","i","o","n">>) @@
    ("Block A 3-Level 3 / East Elevation" :> <<"B","l","o","c","k"," ","A"," ","3","-","L","e","v","e","l"," ","3"," ","/"," ","E","a","s","t"," ","E","l","e","v","a","t","i","o","n">>) @@
    ("block a L03 x/EAST elevation" :> <<"b","l","o","c","k"," ","a"," ","L","0","3"," ","x","/","E","A","S","T"," ","e","l","e","v","a","t","i","o","n">>) @@
    ("Block B 0-Ground Level / West Elevation" :> <<"B","l","o","c","k"," ","B"," ","0","-","G","r","o","u","n","d"," ","L","e","v","e","l"," ","/"," ","W","e","s","t"," ","E","l","e","v","a","t","i","o","n">>) @@
    ("Block A Level 3 East" :> <<"B","l","o","c","k"," ","A"," ","L","e","v","e","l"," ","3"," ","E","a","s","t">>) @@
    ("Total" :> <<"T","o","t","a","l">>)

(***************************************************************************)
(* Cell values: a string, an integer, or None (an empty cell).            *)
(***************************************************************************)
StrVal(s) == [t |-> "str", s |-> s, n |-> 0]
IntVal(n) == [t |-> "int", s |-> "", n |-> n]
NoValue == [t |-> "none", s |-> "", n |-> 0]

(***************************************************************************)
(* LOC_STRICT_RE and parse_loc.  A level clause matched at t is           *)
(* <<end, digits of the level>>; no match is <<>>.                        *)
(***************************************************************************)
\* (\d{1,2})\b : one or two digits, then a word boundary
Digits12(s, p) ==
    IF Digits1(s, p) # 0 /\ Digits1(s, p) <= p + 2 THEN WordEdge(s, Digits1(s, p)) ELSE 0
\* \d{1,2} before \s*- : one or two digits, and no third
Digits12Only(s, p) ==
    IF Digits1(s, p) # 0 /\ Digits1(s, p) <= p + 2 THEN Digits1(s, p) ELSE 0
\* 0{0,2} before \s*- : up to two zeros
Zeros02(s, p) ==
    IF p = 0 THEN 0 ELSE Min({q \in p..(p + 2) : q = p + 2 \/ q > Len(s) \/ s[q] # "0"})
\* \s*-\s*
Hyphen(s, p) == Spaces0(s, Char(s, Spaces0(s, p), "-"))
Clause(end, digits) == IF end = 0 THEN <<>> ELSE <<end, digits>>

\* (?P<gl>\b0{0,2}\s*-\s*Ground\s+Level\b)
AltGround(s, t) ==
    Clause(WordEdge(s, Lit(s, Spaces1(s, Lit(s, Hyphen(s, Zeros02(s, WordEdge(s, t))),
                                             wGround)), wLevel)),
           <<>>)

\* \b\d{1,2}\s*-\s*Level\s+(?P<lvl2>\d{1,2})\b
AtNumLevel(s, t) == Spaces1(s, Lit(s, Hyphen(s, Digits12Only(s, WordEdge(s, t))), wLevel))
AltNumLevel(s, t) ==
    Clause(Digits12(s, AtNumLevel(s, t)),
           SubSeq(s, AtNumLevel(s, t), Digits12(s, AtNumLevel(s, t)) - 1))

\* \bLevel\s+(?P<lvl1>\d{1,2})\b
AtLevelNum(s, t) == Spaces1(s, Lit(s, WordEdge(s, t), wLevel))
AltLevel(s, t) ==
    Clause(Digits12(s, AtLevelNum(s, t)),
           SubSeq(s, AtLevelNum(s, t), Digits12(s, AtLevelNum(s, t)) - 1))

\* \bL(?P<lvl0>\d{1,2})\b
AtLNum(s, t) == Lit(s, WordEdge(s, t), <<"l">>)
AltL(s, t) ==
    Clause(Digits12(s, AtLNum(s, t)),
           SubSeq(s, AtLNum(s, t), Digits12(s, AtLNum(s, t)) - 1))

\* the four alternatives, in the order the pattern lists them
LevelAlt(s, t, a) ==
    CASE a = 1 -> AltGround(s, t)
      [] a = 2 -> AltNumLevel(s, t)
      [] a = 3 -> AltLevel(s, t)
      [] a = 4 -> AltL(s, t)

\* /\s*(?P<side>East|West|North|South)\s+Elevation\b at v
AtSuffixSide(s, v) == Spaces0(s, Char(s, v, "/"))
AfterSuffixSide(s, v) == LitAny(s, AtSuffixSide(s, v), SideWords)
SuffixAt(s, v) == WordEdge(s, Lit(s, Spaces1(s, AfterSuffixSide(s, v)), wElevation))

\* .*/\s*(side)\s+Elevation\b from u (greedy): the last "/" that fits, or 0
LastSuffix(s, u) ==
    IF \A v \in u..Len(s) : ~(NoNewline(s, u, v) /\ SuffixAt(s, v) # 0) THEN 0
    ELSE Max({v \in u..Len(s) : NoNewline(s, u, v) /\ SuffixAt(s, v) # 0})

\* Block\s+(?P<block>[A-Z])\b
AtLocBlock(s, p) == Spaces1(s, Lit(s, p, wBlock))
AfterLocBlock(s, p) == WordEdge(s, Letter(s, AtLocBlock(s, p)))

\* .*? from h: the level clauses <<start, alternative>> that match and leave
\* room for the suffix
Clauses(s, h) ==
    {x \in (h..(Len(s) + 1)) \X (1..4) :
       /\ NoNewline(s, h, x[1])
       /\ LevelAlt(s, x[1], x[2]) # <<>>
       /\ LastSuffix(s, LevelAlt(s, x[1], x[2])[1]) # 0}
\* the one the engine finds: the earliest start, then the first alternative
FirstClause(C) ==
    CHOOSE x \in C : \A y \in C : x[1] < y[1] \/ (x[1] = y[1] /\ x[2] <= y[2])

\* the groups of the match that block letter b, clause x and suffix v make.
\* gl tells whether the group "gl" matched; lvl is the one of lvl2, lvl1,
\* lvl0 that did
LocGroups(s, b, x, v) ==
    [block |-> <<s[b]>>, gl |-> x[2] = 1, lvl |-> LevelAlt(s, x[1], x[2])[2],
     side |-> SubSeq(s, AtSuffixSide(s, v), AfterSuffixSide(s, v) - 1)]

LocFrom(s, p, x) ==
    << LocGroups(s, AtLocBlock(s, p), x, LastSuffix(s, LevelAlt(s, x[1], x[2])[1])) >>

\* the pattern tried at position p: <<groups>>, or <<>>
LocMatchAt(s, p) ==
    IF AfterLocBlock(s, p) = 0 THEN <<>>
    ELSE IF Clauses(s, AfterLocBlock(s, p)) = {} THEN <<>>
    ELSE LocFrom(s, p, FirstClause(Clauses(s, AfterLocBlock(s, p))))

LOC_STRICT_RE_search(s) ==
    IF \A p \in 1..Len(s) : LocMatchAt(s, p) = <<>> THEN <<>>
    ELSE LocMatchAt(s, Min({p \in 1..Len(s) : LocMatchAt(s, p) # <<>>}))

\* parse_loc on the characters of a text: <<block, level, side>>, or <<>>
\* for None
LocOf(m) ==
    IF m = <<>> THEN <<>>
    ELSE <<Upper(m[1].block), IF m[1].gl THEN 0 ELSE IntOf(m[1].lvl), Capitalize(m[1].side)>>
parse_loc_text(s) == LocOf(LOC_STRICT_RE_search(s))

\* the same on every text of a workbook, computed once, as pairs
\* <<text, location>>
Locations == {<<text, parse_loc_text(Chars[text])>> : text \in DOMAIN Chars}

\* parse_loc of a cell value; a value that is no str gives None
parse_loc(text) ==
    IF text.t # "str" THEN <<>> ELSE (CHOOSE x \in Locations : x[1] = text.s)[2]

\* re.match(r"^\s*(\d+)", txt) and int(m.group(1)) on the characters of a
\* text: <<question number>>, or <<>> for no match
HeaderNumberOf(s) ==
    IF Digits1(s, Spaces0(s, 1)) = 0 THEN <<>>
    ELSE <<IntOf(SubSeq(s, Spaces0(s, 1), Digits1(s, Spaces0(s, 1)) - 1))>>

\* the same on every text of a workbook, computed once, as pairs
\* <<text, number>>
HeaderNumbers == {<<text, HeaderNumberOf(Chars[text])>> : text \in DOMAIN Chars}

\* isinstance(txt, str) and the match of build_q_header_map on a cell
\* value: <<question number>>, or <<>> when nothing is recorded
HeaderNumber(v) ==
    IF v.t # "str" THEN <<>> ELSE (CHOOSE x \in HeaderNumbers : x[1] = v.s)[2]

(***************************************************************************)
(* Fills and cells.  A fill is the pattern type and the foreground colour *)
(* of an openpyxl PatternFill.                                            *)
(***************************************************************************)
Solid(color) == [patternType |-> "solid", fgColor |-> color]
\* PatternFill() with no arguments: no fill
NoFill == [patternType |-> None, fgColor |-> "00000000"]
Red == Solid("FFFF0000")
Yellow == Solid("FFFFFF00")
Green == Solid("FF00B050")

color_fill_for_count_below6(n) ==
    IF n < 6 THEN Red
    ELSE IF 7 <= n /\ n <= 20 THEN Yellow
    ELSE Green
color_fill_for_count(n) ==
    IF n <= 6 THEN Red
    ELSE IF 7 <= n /\ n <= 20 THEN Yellow
    ELSE Green

Cell(v, f) == [value |-> v, fill |-> f]

(***************************************************************************)
(* Dictionaries are functions; d.get(k) is <<d[k]>>, or <<>> for None.    *)
(***************************************************************************)
EmptyMap == [x \in {} |-> 0]
Put(d, k, v) == [x \in (DOMAIN d) \cup {k} |-> IF x = k THEN v ELSE d[x]]
Get(d, k) == IF k \in DOMAIN d THEN <<d[k]>> ELSE <<>>

(***************************************************************************)
(* pick_sheet_for_kind.  A worksheet is identified by its position in     *)
(* wb.worksheets; 0 stands for None.                                      *)
(***************************************************************************)
kBW == <<"B","W">>
kSR == <<"S","R">>
SHEET_ALIASES ==
    (kBW :> << <<"b","r","i","c","k","w","o","r","k">> >>) @@
    (kSR :> << <<"s","i","d","e","r","a","i","s","e">>,
               <<"s","i","d","e","r","i","s","e">>,
               <<"s","i","d","e"," ","r","a","i","s","e">>,
               <<"s","i","d","e","-","r","a","i","s","e">>,
               <<"s","i","d","e"," ","r","i","s","e">> >>)

\* a in title
Contains(title, a) ==
    \E p \in 1..(Len(title) - Len(a) + 1) : SubSeq(title, p, p + Len(a) - 1) = a

\* any(a in title for a in aliases), with title and aliases in lower case
AnyAliasIn(title, kind) ==
    LET aliases == IF kind \in DOMAIN SHEET_ALIASES THEN SHEET_ALIASES[kind] ELSE <<>>
    IN  \E k \in 1..Len(aliases) : Contains(Lower(title), Lower(aliases[k]))

\* the same on every text of a workbook, computed once: the pairs
\* <<title, kind>> of a title and a kind whose aliases it contains
TitlesFitting ==
    {x \in (DOMAIN Chars) \X (DOMAIN SHEET_ALIASES) : AnyAliasIn(Chars[x[1]], x[2])}
TitleFits(title, kind) == <<title, kind>> \in TitlesFitting

pick_sheet_for_kind(w, kind) ==
    LET S == {k \in 1..Len(w) : TitleFits(w[k].title, kind)}
    IN  IF S = {} THEN 0 ELSE Min(S)

(***************************************************************************)
(* The indices of a worksheet.  sheet.cells[r][c] is the cell of row r    *)
(* and column c; ws.max_row and the width of the header row are the       *)
(* dimensions of the grid.                                                *)
(***************************************************************************)
header_row == 1
MaxRowOf(sheet) == Len(sheet.cells)
MaxColOf(sheet) == Len(sheet.cells[header_row])

\* qmap[int(m.group(1))] = j : a later column overwrites an earlier one
PutColumn(qmap, q, j) == Put(qmap, q, j)

\* the loop of build_q_header_map over the columns 1..j
RECURSIVE HeaderLoop(_, _)
HeaderLoop(sheet, j) ==
    IF j = 0 THEN EmptyMap
    ELSE LET qmap == HeaderLoop(sheet, j - 1)
             m == HeaderNumber(sheet.cells[header_row][j].value)
         IN  IF m # <<>> THEN PutColumn(qmap, m[1], j) ELSE qmap

build_q_header_map(sheet) == HeaderLoop(sheet, MaxColOf(sheet))

\* if loc and loc not in rmap: rmap[loc] = r
PutRow_last(rmap, loc, r) == Put(rmap, loc, r)
PutRow(rmap, loc, r) == IF loc \in DOMAIN rmap THEN rmap ELSE Put(rmap, loc, r)

\* the loop of build_row_map over the rows header_row+1 .. r
RECURSIVE RowLoop(_, _)
RowLoop(sheet, r) ==
    IF r <= header_row THEN EmptyMap
    ELSE LET rmap == RowLoop(sheet, r - 1)
             loc == parse_loc(sheet.cells[r][1].value)
         IN  IF loc # <<>> THEN PutRow(rmap, loc, r) ELSE rmap

build_row_map(sheet) == RowLoop(sheet, MaxRowOf(sheet))

\* the test of clear_non_location_rows on row r
IsStaleRow_any(sheet, r) == TRUE
IsStaleRow(sheet, r) == parse_loc(sheet.cells[r][1].value) = <<>>

\* cell.value = None; cell.fill = PatternFill()
Cleared_valueOnly(cell) == Cell(NoValue, cell.fill)
Cleared(cell) == Cell(NoValue, NoFill)

\* clear_non_location_rows: the cells of the sheet afterwards.  The test
\* of a row reads column A before any cell of that row is cleared.
clear_non_location_rows(sheet, qmap) ==
    LET cols == Range(qmap)
    IN  [sheet EXCEPT !.cells =
           [r \in 1..MaxRowOf(sheet) |->
              [c \in 1..MaxColOf(sheet) |->
                 IF r > header_row /\ IsStaleRow(sheet, r) /\ c \in cols
                 THEN Cleared(sheet.cells[r][c])
                 ELSE sheet.cells[r][c]]]]

\* write_one: the sheet afterwards
write_one_keepFirst(sheet, r, c, value) ==
    IF sheet.cells[r][c].fill \in {Red, Yellow, Green} THEN sheet
    ELSE [sheet EXCEPT !.cells[r][c] = Cell(IntVal(value), color_fill_for_count(value))]
write_one(sheet, r, c, value) ==
    [sheet EXCEPT !.cells[r][c] = Cell(IntVal(value), color_fill_for_count(value))]

(***************************************************************************)
(* Inputs.  Bounds of the model.                                          *)
(***************************************************************************)
\* rows of a worksheet, the header row included
NumRows == 4
\* columns of a worksheet, column A included
NumCols == 3
\* lines of a report given to process
MaxEntries == 2
\* lines of a report given to parse_txt alone
MaxLines == 2
\* runs of the pipeline, each on the workbook the run before saved
MaxRuns == 2
\* the counts 0..CountsChecked are tried on color_fill_for_count
CountsChecked == 25

SeqsUpTo(S, n) == UNION {[1..k -> S] : k \in 0..n}
Cyc(pattern, k) == pattern[((k - 1) % Len(pattern)) + 1]

(***************************************************************************)
(* Report lines, each assembled from the parts of the grammar             *)
(*   count "pictures" - "Block" block "L"level side kind text "/" qnum    *)
(* so that what a line means is known without parsing it.  A part is      *)
(* <<spelling, meaning>>; the free text is <<text, kind, number>>.         *)
(***************************************************************************)
\* "East"
sEast == <<"E","a","s","t">>
\* "West"
sWest == <<"W","e","s","t">>
\* "North"
sNorth == <<"N","o","r","t","h">>
\* "South"
sSouth == <<"S","o","u","t","h">>

MkLine(lead, count, pict, dash, blockw, block, ell, level, side, kind, tail, qnum, rest) ==
    [text  |-> lead[1] \o count[1] \o <<" ">> \o pict \o dash[1] \o blockw \o <<" ">>
               \o block[1] \o <<" ">> \o ell \o level[1] \o <<" ">> \o side[1]
               \o <<" ">> \o kind[1] \o tail[1] \o <<"/">> \o qnum[1] \o rest,
     \* "code": count is the first thing on the line and the dash is there;
     \* "loose": the grammar is on the line, but after other text or with
     \* no dash; "none": the grammar is not on the line
     fits  |-> IF level[2] > 99 \/ tail[2] = "glued" THEN "none"
               ELSE IF lead[2] = "text" \/ dash[2] = "nodash" THEN "loose"
               ELSE "code",
     entry |-> [block |-> block[2], level |-> level[2], side |-> side[2],
                qnum |-> IF tail[2] = "early" THEN tail[3] ELSE qnum[2],
                count |-> count[2], kind |-> kind[2]]]

\* "pictures"
pPictures == <<"p","i","c","t","u","r","e","s">>
\* "PICTURES"
pPICTURES == <<"P","I","C","T","U","R","E","S">>
\* "Block"
pBlock == <<"B","l","o","c","k">>
\* "block"
pblock == <<"b","l","o","c","k">>

NoLead == << <<>>, "blank" >>
BlankLead == << <<" ", "\t">>, "blank" >>
\* "Note: "
TextLead == << <<"N","o","t","e",":"," ">>, "text" >>
SpacedDash == << <<" ", "-", " ">>, "dash" >>
BareDash == << <<"-">>, "dash" >>
NoDash == << <<" ">>, "nodash" >>
FreeSpace == << <<" ">>, "free", 0 >>
\* " xyz a/b /4a "
FreeText == << <<" ","x","y","z"," ","a","/","b"," ","/","4","a"," ">>, "free", 0 >>
\* " see /7 or ": an earlier "/" with a number, which the match stops at
EarlyNumber == << <<" ","s","e","e"," ","/","7"," ","o","r"," ">>, "early", 7 >>
\* "X ": the kind runs into a letter
GluedText == << <<"X"," ">>, "glued", 0 >>
NL == <<"\n">>

Line(lead, dash, level, tail) ==
    MkLine(lead, << <<"1","2">>, 12 >>, pPictures, dash, pBlock, << <<"A">>, <<"A">> >>,
           <<"L">>, level, <<sEast, sEast>>, << <<"B","W">>, kBW >>, tail,
           << <<"4">>, 4 >>, NL)

L3 == << <<"3">>, 3 >>
L03 == << <<"0","3">>, 3 >>
L123 == << <<"1","2","3">>, 123 >>

\* the lines process is run on
ReportLines ==
    { \* "6 pictures - Block A L3 East BW xyz a/b /4a /4\n"
      MkLine(NoLead, << <<"6">>, 6 >>, pPictures, SpacedDash, pBlock, << <<"A">>, <<"A">> >>,
             <<"L">>, L3, <<sEast, sEast>>, << <<"B","W">>, kBW >>, FreeText,
             << <<"4">>, 4 >>, NL),
      \* " \t21 PICTURES-block a l03 EAST sr /04\n"
      MkLine(BlankLead, << <<"2","1">>, 21 >>, pPICTURES, BareDash, pblock, << <<"a">>, <<"A">> >>,
             <<"l">>, L03, << <<"E","A","S","T">>, sEast >>, << <<"s","r">>, kSR >>, FreeSpace,
             << <<"0","4">>, 4 >>, NL),
      \* "7 pictures - Block B L0 West BW /5 / 6\n"
      MkLine(NoLead, << <<"7">>, 7 >>, pPictures, SpacedDash, pBlock, << <<"B">>, <<"B">> >>,
             <<"L">>, << <<"0">>, 0 >>, <<sWest, sWest>>, << <<"B","W">>, kBW >>, FreeSpace,
             << <<"5">>, 5 >>, <<" ", "/", " ", "6", "\n">>),
      \* "20 pictures - Block C L12 North SR /9\n"
      MkLine(NoLead, << <<"2","0">>, 20 >>, pPictures, SpacedDash, pBlock, << <<"C">>, <<"C">> >>,
             <<"L">>, << <<"1","2">>, 12 >>, <<sNorth, sNorth>>, << <<"S","R">>, kSR >>, FreeSpace,
             << <<"9">>, 9 >>, NL),
      \* "022 pictures - Block A L3 East BW /4" (a last line without newline)
      MkLine(NoLead, << <<"0","2","2">>, 22 >>, pPictures, SpacedDash, pBlock, << <<"A">>, <<"A">> >>,
             <<"L">>, L3, <<sEast, sEast>>, << <<"B","W">>, kBW >>, FreeSpace,
             << <<"4">>, 4 >>, <<>>) }

NoEntry == [block |-> <<>>, level |-> 0, side |-> <<>>, qnum |-> 0, count |-> 0,
            kind |-> <<>>]

\* the lines parse_txt alone is run on: the above, and lines that differ
\* from "12 pictures - Block A L3 East BW /4\n" in one or two parts
ParseLines ==
    ReportLines \cup
    { Line(lead, dash, level, tail) :
        <<lead, dash, level, tail>> \in
            ({NoLead, BlankLead, TextLead} \X {SpacedDash, NoDash} \X {L3} \X {FreeSpace})
            \cup ({NoLead} \X {SpacedDash} \X {L03, L123}
                           \X {FreeSpace, FreeText, EarlyNumber, GluedText}) }
    \cup { \* lines that are no record at all
           [text |-> <<"T","o","t","a","l",":"," ","1","2","\n">>, fits |-> "none",
            entry |-> NoEntry],
           [text |-> NL, fits |-> "none", entry |-> NoEntry] }

Text(report) == [k \in 1..Len(report) |-> report[k].text]

\* EntryOf on every line of a report, computed once, as pairs <<line, entries>>
LineEntries == {<<x.text, EntryOf(x.text)>> : x \in ParseLines}

\* one iteration of the loop of parse_txt: the list after reading raw
ParseLine(acc, raw) == acc \o (CHOOSE x \in LineEntries : x[1] = raw)[2]

RECURSIVE parse_txt(_)
parse_txt(ls) ==
    IF ls = <<>> THEN <<>>
    ELSE ParseLine(parse_txt(SubSeq(ls, 1, Len(ls) - 1)), ls[Len(ls)])

(***************************************************************************)
(* Workbooks: the worksheets by title, and one grid of cells given by a   *)
(* header row, a column A and the old content of the other cells.         *)
(***************************************************************************)
tBrickwork == "Brickwork"
tSideRise == "Side Rise"
tBoth == "BRICKWORK-SideRaise"
tSummary == "Summary"
TitleSeqs == { <<tBrickwork, tSideRise>>, <<tSideRise, tBrickwork>>, <<tSummary, tBoth>>,
               <<tBoth, tSideRise>>, <<tBrickwork>>, <<tSummary>> }

hLocation == StrVal("Location")
hNotes == StrVal("Notes")
h4 == StrVal("4 All Clean")
h4All == StrVal("4All")
h05 == StrVal(" 05 Mortar")
h4Location == StrVal("4 Location")
HeaderPatterns == { <<hLocation, h4, h05>>, <<hLocation, h4, h4All>>,
                    <<h4Location, h05, IntVal(4)>>, <<hLocation, hNotes, NoValue>> }

aA3East == StrVal("Block A 3-Level 3 / East Elevation")
aA3EastL == StrVal("block a L03 x/EAST elevation")
aB0West == StrVal("Block B 0-Ground Level / West Elevation")
aNoSide == StrVal("Block A Level 3 East")
aTotal == StrVal("Total")
ColumnAPatterns == { <<aA3East, aTotal, aA3EastL>>, <<aNoSide, aB0West, aA3EastL>>,
                     <<NoValue, IntVal(7), aTotal>>, <<aB0West, aA3East, aB0West>> }

\* what the cells outside the header row and column A hold before the run
Blue == Solid("FF0070C0")
OldCell == Cell(IntVal(99), Blue)
EmptyCell == Cell(NoValue, NoFill)
Prefills == {"old", "mixed"}
Prefill(p, r, c) == IF p = "old" \/ (r + c) % 2 = 0 THEN OldCell ELSE EmptyCell

Grid(h, a, p) ==
    [r \in 1..NumRows |->
       [c \in 1..NumCols |->
          IF r = header_row THEN Cell(Cyc(h, c), NoFill)
          ELSE IF c = 1 THEN Cell(Cyc(a, r - 1), NoFill)
          ELSE Prefill(p, r, c)]]

Workbooks ==
    { [k \in 1..Len(ts) |-> [title |-> ts[k], cells |-> Grid(h, a, p)]] :
        ts \in TitleSeqs, h \in HeaderPatterns, a \in ColumnAPatterns, p \in Prefills }

(***************************************************************************)
(* State.                                                                 *)
(***************************************************************************)
VARIABLES
    made,         \* the lines of info.txt, with what each was assembled from
    ln,           \* parse_txt: the number of the next line to read
    entries,      \* parse_txt: out; then the entries given to process
    input,        \* the workbook file at xlsx_path
    wb,           \* process: the loaded workbook
    pc,           \* where the program is
    i,            \* process: the number of the entry of "for e in entries"
    ws,           \* process: the worksheet of the entry (0: None)
    sheet_cache,  \* process: kind -> worksheet or None
    header_cache, \* process: worksheet -> question number -> column
    row_cache,    \* process: worksheet -> location -> row
    cleared,      \* process: the worksheets cleaned
    written,      \* process: the success counter
    skipped,      \* process: <<entry number, reason>> of the entries skipped
    calls,        \* log of the calls made in this run, in order
    before,       \* the workbook as it was when the entry of the last loop round was taken up
    outputs       \* the workbook files saved, one per run

vars == <<made, ln, entries, input, wb, pc, i, ws, sheet_cache, header_cache,
          row_cache, cleared, written, skipped, calls, before, outputs>>

processVars == <<input, wb, i, ws, sheet_cache, header_cache, row_cache, cleared,
                 written, skipped, calls, before, outputs>>

SheetNotFound == "sheet for kind not found"
LocationNotFound == "location not found in column A"
QuestionNotFound == "question number not found in header"

\* the locals of process as they are set in lines 152-160
ProcessStart(file) ==
    /\ input = file
    /\ wb = file
    /\ i = 1
    /\ ws = 0
    /\ sheet_cache = EmptyMap
    /\ header_cache = EmptyMap
    /\ row_cache = EmptyMap
    /\ cleared = {}
    /\ written = 0
    /\ skipped = <<>>
    /\ calls = <<>>
    /\ before = file

\* main: parse_txt has returned and process has loaded the workbook
Init ==
    /\ made \in SeqsUpTo(ReportLines, MaxEntries)
    /\ ln = Len(made) + 1
    /\ entries = parse_txt(Text(made))
    /\ \E file \in Workbooks : ProcessStart(file)
    /\ pc = "resolve"
    /\ outputs = <<>>

\* main: parse_txt is about to read the first line
InitParse ==
    /\ made \in SeqsUpTo(ParseLines, MaxLines)
    /\ ln = 1
    /\ entries = <<>>
    /\ ProcessStart(<<>>)
    /\ pc = "parse"
    /\ outputs = <<>>

(***************************************************************************)
(* parse_txt, one line per step.                                          *)
(***************************************************************************)
ReadLine ==
    /\ pc = "parse"
    /\ ln <= Len(made)
    /\ entries' = ParseLine(entries, made[ln].text)
    /\ ln' = ln + 1
    /\ UNCHANGED <<made, pc, processVars>>

ReturnEntries ==
    /\ pc = "parse"
    /\ ln > Len(made)
    /\ pc' = "parsed"
    /\ UNCHANGED <<made, ln, entries, processVars>>

(***************************************************************************)
(* process, one loop round in five steps.                                 *)
(***************************************************************************)
Log(event) == calls' = Append(calls, event)

\* sheet_cache.get(e.kind) is None: nothing cached, or None cached
NeedsResolve(kind) == Get(sheet_cache, kind) \in {<<>>, <<0>>}

\* lines 162-170: take up entry i and choose its worksheet
Resolve ==
    /\ pc = "resolve"
    /\ i <= Len(entries)
    /\ before' = wb
    /\ LET e == entries[i]
           found == pick_sheet_for_kind(wb, e.kind)
       IN  IF NeedsResolve(e.kind)
           THEN /\ ws' = found
                /\ sheet_cache' = Put(sheet_cache, e.kind, found)
                /\ Log(<<"pick_sheet_for_kind", i, e.kind>>)
                /\ IF found = 0
                   THEN /\ skipped' = Append(skipped, <<i, SheetNotFound>>)
                        /\ i' = i + 1
                        /\ pc' = "resolve"
                   ELSE /\ pc' = "header"
                        /\ UNCHANGED <<skipped, i>>
           ELSE /\ ws' = sheet_cache[e.kind]
                /\ pc' = "header"
                /\ UNCHANGED <<sheet_cache, calls, skipped, i>>
    /\ UNCHANGED <<made, ln, entries, input, wb, header_cache, row_cache, cleared,
                   written, outputs>>

\* ws not in header_cache / row_cache / cleared
NotIn_never(s, done) == TRUE
NotIn(s, done) == s \notin done

\* lines 173-174
BuildHeader ==
    /\ pc = "header"
    /\ IF NotIn(ws, DOMAIN header_cache)
       THEN /\ header_cache' = Put(header_cache, ws, build_q_header_map(wb[ws]))
            /\ Log(<<"build_q_header_map", i, ws>>)
       ELSE UNCHANGED <<header_cache, calls>>
    /\ pc' = "row"
    /\ UNCHANGED <<made, ln, entries, input, wb, i, ws, sheet_cache, row_cache,
                   cleared, written, skipped, before, outputs>>

\* lines 175-176
BuildRow ==
    /\ pc = "row"
    /\ IF NotIn(ws, DOMAIN row_cache)
       THEN /\ row_cache' = Put(row_cache, ws, build_row_map(wb[ws]))
            /\ Log(<<"build_row_map", i, ws>>)
       ELSE UNCHANGED <<row_cache, calls>>
    /\ pc' = "clean"
    /\ UNCHANGED <<made, ln, entries, input, wb, i, ws, sheet_cache, header_cache,
                   cleared, written, skipped, before, outputs>>

\* lines 178-180
Clean ==
    /\ pc = "clean"
    /\ IF NotIn(ws, cleared)
       THEN /\ wb' = [wb EXCEPT ![ws] = clear_non_location_rows(wb[ws], header_cache[ws])]
            /\ cleared' = cleared \cup {ws}
            /\ Log(<<"clear_non_location_rows", i, ws>>)
       ELSE UNCHANGED <<wb, cleared, calls>>
    /\ pc' = "write"
    /\ UNCHANGED <<made, ln, entries, input, i, ws, sheet_cache, header_cache,
                   row_cache, written, skipped, before, outputs>>

\* lines 188-193: the reason to skip the entry, <<>> if there is none
SkipReason_columnFirst(row, col) ==
    IF col = <<>> THEN <<QuestionNotFound>>
    ELSE IF row = <<>> THEN <<LocationNotFound>>
    ELSE <<>>
SkipReason(row, col) ==
    IF row = <<>> THEN <<LocationNotFound>>
    ELSE IF col = <<>> THEN <<QuestionNotFound>>
    ELSE <<>>

\* lines 182-196
Write ==
    /\ pc = "write"
    /\ LET e == entries[i]
           qmap == header_cache[ws]
           rmap == row_cache[ws]
           row == Get(rmap, <<e.block, e.level, e.side>>)
           col == Get(qmap, e.qnum)
           why == SkipReason(row, col)
       IN  IF why # <<>>
           THEN /\ skipped' = Append(skipped, <<i, why[1]>>)
                /\ UNCHANGED <<wb, written, calls>>
           ELSE /\ wb' = [wb EXCEPT ![ws] = write_one(wb[ws], row[1], col[1], e.count)]
                /\ written' = written + 1
                /\ Log(<<"write_one", i, ws, row[1], col[1]>>)
                /\ UNCHANGED skipped
    /\ i' = i + 1
    /\ pc' = "resolve"
    /\ UNCHANGED <<made, ln, entries, input, ws, sheet_cache, header_cache, row_cache,
                   cleared, before, outputs>>

\* line 198: wb.save(out_path), after the last entry
Save ==
    /\ pc = "resolve"
    /\ i > Len(entries)
    /\ outputs' = Append(outputs, wb)
    /\ pc' = "done"
    /\ UNCHANGED <<made, ln, entries, input, wb, i, ws, sheet_cache, header_cache,
                   row_cache, cleared, written, skipped, calls, before>>

\* the pipeline is run again, on the same report and on the workbook that
\* the run before saved
Rerun ==
    /\ pc = "done"
    /\ Len(outputs) < MaxRuns
    /\ input' = outputs[Len(outputs)]
    /\ wb' = outputs[Len(outputs)]
    /\ before' = outputs[Len(outputs)]
    /\ i' = 1
    /\ ws' = 0
    /\ sheet_cache' = EmptyMap
    /\ header_cache' = EmptyMap
    /\ row_cache' = EmptyMap
    /\ cleared' = {}
    /\ written' = 0
    /\ skipped' = <<>>
    /\ calls' = <<>>
    /\ pc' = "resolve"
    /\ UNCHANGED <<made, ln, entries, outputs>>

Next == Resolve \/ BuildHeader \/ BuildRow \/ Clean \/ Write \/ Save
Spec == Init /\ [][Next]_vars

NextParse == ReadLine \/ ReturnEntries
SpecParse == InitParse /\ [][NextParse]_vars

NextRerun == Next \/ Rerun
SpecRerun == Init /\ [][NextRerun]_vars

(***************************************************************************)
(* What the run is expected to do with entry k, told from the workbook    *)
(* as it was loaded and from the report alone.                            *)
(***************************************************************************)
KeyOf(e) == <<e.block, e.level, e.side>>
SheetOf(k) == pick_sheet_for_kind(input, entries[k].kind)
\* the data rows whose column A carries the location of e, and the header
\* cells that carry its question number
RowsOf(sheet, e) ==
    {r \in (header_row + 1)..MaxRowOf(sheet) : parse_loc(sheet.cells[r][1].value) = KeyOf(e)}
ColsOf(sheet, e) ==
    {c \in 1..MaxColOf(sheet) : HeaderNumber(sheet.cells[header_row][c].value) = <<e.qnum>>}
Outcome(k) ==
    IF SheetOf(k) = 0 THEN SheetNotFound
    ELSE IF RowsOf(input[SheetOf(k)], entries[k]) = {} THEN LocationNotFound
    ELSE IF ColsOf(input[SheetOf(k)], entries[k]) = {} THEN QuestionNotFound
    ELSE "written"
\* the cell <<sheet, row, column>> a written entry goes to
Target(k) ==
    <<SheetOf(k), Min(RowsOf(input[SheetOf(k)], entries[k])),
      Max(ColsOf(input[SheetOf(k)], entries[k]))>>
\* the entries handled so far
Handled == 1..(i - 1)
\* the positions in the log of the calls of f on worksheet s
CallsOn(f, s) == {k \in 1..Len(calls) : calls[k][1] = f /\ calls[k][3] = s}
LastCall == IF calls = <<>> THEN <<"none", 0, 0>> ELSE calls[Len(calls)]
Sheets == 1..Len(wb)

(***************************************************************************)
(* C1: for every worksheet some entry resolves to, the header index, the  *)
(* row index and the cleaning are each done exactly once in the run (at   *)
(* most once at any time), the cleaning after both indices and before the *)
(* first write_one on that sheet.                                         *)
(***************************************************************************)
OncePerSheet(H, R, C, W, used) ==
    /\ Cardinality(H) <= 1
    /\ Cardinality(R) <= 1
    /\ Cardinality(C) <= 1
    /\ \A c \in C : (\E h \in H : h < c) /\ (\E r \in R : r < c)
    /\ \A w \in W : \E c \in C : c < w
    /\ used => Cardinality(H) = 1 /\ Cardinality(R) = 1 /\ Cardinality(C) = 1
C1_OncePerSheet ==
    \A s \in Sheets :
       OncePerSheet(CallsOn("build_q_header_map", s), CallsOn("build_row_map", s),
                    CallsOn("clear_non_location_rows", s), CallsOn("write_one", s),
                    pc \in {"resolve", "done"} /\ \E k \in Handled : SheetOf(k) = s)

\* two entries of different kinds went to one sheet, and both were written
C1_Witness ==
    /\ pc = "done"
    /\ Len(entries) = 2
    /\ entries[1].kind # entries[2].kind
    /\ SheetOf(1) = SheetOf(2)
    /\ SheetOf(1) # 0
    /\ Cardinality(CallsOn("write_one", SheetOf(1))) = 2

(***************************************************************************)
(* C2: every entry handled has exactly one outcome: sheet not found, else *)
(* location not found (also when the question number is missing too),     *)
(* else question number not found, else written.  The skip list holds the *)
(* skipped entries in parse order, and written + skips = entries handled. *)
(***************************************************************************)
IsSkip(x) == x[2] # "written"
Outcomes == [k \in Handled |-> <<k, Outcome(k)>>]
OutcomesAre(all) ==
    /\ skipped = SelectSeq(all, IsSkip)
    /\ written = Len(all) - Len(SelectSeq(all, IsSkip))
    /\ written + Len(skipped) = i - 1
    /\ pc = "done" => written + Len(skipped) = Len(entries)
C2_OneOutcome == pc \in {"resolve", "done"} => OutcomesAre(Outcomes)

\* an entry with neither its row nor its column on the sheet was skipped
\* for the location, after an entry that was written
C2_Witness ==
    /\ pc = "done"
    /\ written = 1
    /\ Len(skipped) = 1
    /\ skipped[1] = <<2, LocationNotFound>>
    /\ ColsOf(input[SheetOf(2)], entries[2]) = {}

(***************************************************************************)
(* C6: in one run, pick_sheet_for_kind is called at most once per         *)
(* category, whether a sheet is found or not.                             *)
(***************************************************************************)
C6_ResolvedOncePerKind ==
    \A kind \in {kBW, kSR} :
       Cardinality({k \in 1..Len(calls) :
                      calls[k][1] = "pick_sheet_for_kind" /\ calls[k][3] = kind}) <= 1

(***************************************************************************)
(* The round of entry i - 1 has just ended, with a write or with a skip.  *)
(* The variable before holds the workbook as it was when the round began. *)
(***************************************************************************)
JustWritten == pc = "resolve" /\ LastCall[1] = "write_one" /\ LastCall[2] = i - 1
JustSkipped == pc = "resolve" /\ skipped # <<>> /\ skipped[Len(skipped)][1] = i - 1
JustCleaned == pc = "write" /\ LastCall = <<"clear_non_location_rows", i, ws>>
\* a data row whose column A does not parse as a location
StaleRow(sheet, r) == r > header_row /\ parse_loc(sheet.cells[r][1].value) = <<>>
\* the sheet with the indexed columns of its stale rows emptied
WithoutStale(sheet) ==
    [sheet EXCEPT !.cells =
       [r \in 1..MaxRowOf(sheet) |->
          [c \in 1..MaxColOf(sheet) |->
             IF StaleRow(sheet, r) /\ c \in Range(build_q_header_map(sheet))
             THEN EmptyCell ELSE sheet.cells[r][c]]]]

(***************************************************************************)
(* C3: the cleaning of a sheet empties the value and removes the fill of  *)
(* exactly the cells (r, c) with r a data row whose column A does not     *)
(* parse as a location and c a column of the header index; every other    *)
(* cell of the workbook is as it was.                                     *)
(***************************************************************************)
C3_CleaningFrame ==
    JustCleaned =>
       \A s \in Sheets : \A r \in 1..MaxRowOf(wb[s]) : \A c \in 1..MaxColOf(wb[s]) :
          wb[s].cells[r][c] =
             IF s = ws /\ StaleRow(before[s], r) /\ c \in Range(header_cache[s])
             THEN [value |-> NoValue, fill |-> NoFill]
             ELSE before[s].cells[r][c]

\* a cleaning that emptied an old cell, kept an old cell in a location row
\* and kept an old cell of a stale row in a column outside the index
C3_Witness ==
    /\ JustCleaned
    /\ \E r \in 1..NumRows : \E c \in 1..NumCols :
          StaleRow(before[ws], r) /\ before[ws].cells[r][c] = OldCell
             /\ wb[ws].cells[r][c] = EmptyCell
    /\ \E r \in 2..NumRows : \E c \in Range(header_cache[ws]) :
          ~StaleRow(before[ws], r) /\ wb[ws].cells[r][c] = OldCell
    /\ \E r \in 2..NumRows : \E c \in 2..NumCols :
          StaleRow(before[ws], r) /\ c \notin Range(header_cache[ws])
             /\ wb[ws].cells[r][c] = OldCell

(***************************************************************************)
(* C4: the write of an entry changes no cell but one: the cell in the     *)
(* topmost of the rows that carry the entry's location and in the column  *)
(* of the rightmost of the header cells that carry its question number,   *)
(* which then holds the count.                                            *)
(***************************************************************************)
OnlyCellWritten(cell, old, new, count) ==
    /\ \A s \in Sheets : \A r \in 1..MaxRowOf(old[s]) : \A c \in 1..MaxColOf(old[s]) :
          <<s, r, c>> # cell => new[s].cells[r][c] = old[s].cells[r][c]
    /\ new[cell[1]].cells[cell[2]][cell[3]].value = IntVal(count)
C4_OneCell ==
    [][ pc = "write" /\ written' = written + 1 =>
           OnlyCellWritten(Target(i), wb, wb', entries[i].count) ]_vars

\* an entry was written on a sheet with two rows of its location and two
\* header cells of its question number
C4_Witness ==
    /\ JustWritten
    /\ Cardinality(RowsOf(input[SheetOf(i - 1)], entries[i - 1])) >= 2
    /\ Cardinality(ColsOf(input[SheetOf(i - 1)], entries[i - 1])) >= 2
    /\ wb # before

(***************************************************************************)
(* C5: write_one leaves the count as the value and, as the fill, the      *)
(* solid colour of the count's band: red up to 6, yellow from 7 to 20,    *)
(* green from 21; each count is in exactly one band, and nothing of the   *)
(* fill the cell had is left.                                             *)
(***************************************************************************)
InRed(n) == n <= 6
InYellow(n) == 7 <= n /\ n <= 20
InGreen(n) == n >= 21
BandColour(n) ==
    CASE InRed(n) -> [patternType |-> "solid", fgColor |-> "FFFF0000"]
      [] InYellow(n) -> [patternType |-> "solid", fgColor |-> "FFFFFF00"]
      [] InGreen(n) -> [patternType |-> "solid", fgColor |-> "FF00B050"]
\* each count is in exactly one band and gets the colour of that band
BandsPartition ==
    \A n \in 0..CountsChecked :
       /\ Cardinality({b \in {"red", "yellow", "green"} :
                         \/ b = "red" /\ InRed(n)
                         \/ b = "yellow" /\ InYellow(n)
                         \/ b = "green" /\ InGreen(n)}) = 1
       /\ color_fill_for_count(n) = BandColour(n)
C5_CountAndColour ==
    /\ BandsPartition
    /\ JustWritten =>
          wb[LastCall[3]].cells[LastCall[4]][LastCall[5]]
             = [value |-> IntVal(entries[i - 1].count),
                fill |-> BandColour(entries[i - 1].count)]

\* a count of 7 was written, in yellow, over a cell that was filled blue
C5_Witness ==
    /\ JustWritten
    /\ entries[i - 1].count = 7
    /\ before[LastCall[3]].cells[LastCall[4]][LastCall[5]] = OldCell
    /\ wb[LastCall[3]].cells[LastCall[4]][LastCall[5]].fill = Yellow

(***************************************************************************)
(* C7 as claimed: the round of a skipped entry leaves every cell of the   *)
(* workbook as it was when the round began.                               *)
(***************************************************************************)
C7_SkipChangesNothing == JustSkipped => wb = before

(***************************************************************************)
(* C7 amended: the round of a skipped entry calls no write_one.  When no  *)
(* sheet resolves, no cell changes.  When the location or the question    *)
(* number is not found, the only cells that change are those the cleaning *)
(* of the entry's sheet empties, and only when the entry is the first of  *)
(* the run that resolves to that sheet.                                   *)
(***************************************************************************)
FirstOnSheet(k) == SheetOf(k) # 0 /\ \A j \in 1..(k - 1) : SheetOf(j) # SheetOf(k)
C7_SkipOnlyCleans ==
    JustSkipped =>
       /\ \A k \in 1..Len(calls) : calls[k][1] = "write_one" => calls[k][2] # i - 1
       /\ wb = IF FirstOnSheet(i - 1)
               THEN [before EXCEPT ![SheetOf(i - 1)] = WithoutStale(before[SheetOf(i - 1)])]
               ELSE before

\* an entry skipped for its question number, in a round that cleaned cells
C7_Witness ==
    /\ JustSkipped
    /\ skipped[Len(skipped)][2] = QuestionNotFound
    /\ wb # before

(***************************************************************************)
(* C10: when several entries go to the same cell, each is counted as      *)
(* written, and the cell of the saved workbook holds the count and the    *)
(* colour of the last of them in parse order.                             *)
(***************************************************************************)
WrittenEntries == {k \in 1..Len(entries) : Outcome(k) = "written"}
\* the cells written, as pairs <<entry, cell>>
Targets == {<<k, Target(k)>> : k \in WrittenEntries}
Saved == outputs[Len(outputs)]
LastWins(all) ==
    /\ written = Cardinality(all)
    /\ \A x \in all :
          (\A y \in all : y[2] = x[2] => y[1] <= x[1])
             => Saved[x[2][1]].cells[x[2][2]][x[2][3]]
                   = [value |-> IntVal(entries[x[1]].count),
                      fill |-> BandColour(entries[x[1]].count)]
C10_LastWins == pc = "done" => LastWins(Targets)

\* two entries with counts in different bands went to one cell
C10_Witness ==
    /\ pc = "done"
    /\ written = 2
    /\ Target(1) = Target(2)
    /\ BandColour(entries[1].count) # BandColour(entries[2].count)

(***************************************************************************)
(* The entries that the first n lines of the report stand for, taking the *)
(* lines whose way of fitting the grammar is one of fitting.              *)
(***************************************************************************)
RECURSIVE EntriesOf(_, _)
EntriesOf(fitting, n) ==
    IF n = 0 THEN <<>>
    ELSE IF made[n].fits \in fitting
         THEN Append(EntriesOf(fitting, n - 1), made[n].entry)
         ELSE EntriesOf(fitting, n - 1)

(***************************************************************************)
(* C8 as claimed: parse_txt returns, in line order, one Entry for every   *)
(* line that has the grammar anywhere in it, with or without the dash     *)
(* after "pictures", and nothing for the other lines.                     *)
(***************************************************************************)
C8_AnywhereOptionalDash ==
    pc = "parsed" => entries = EntriesOf({"code", "loose"}, Len(made))

(***************************************************************************)
(* C8 amended: parse_txt returns, in line order, one Entry for every line *)
(* that fits the grammar from its start, after leading whitespace at      *)
(* most, and with the dash after "pictures"; its fields are the parts of  *)
(* that match.  Every other line gives no Entry and no error.             *)
(***************************************************************************)
C8_FromLineStartWithDash == entries = EntriesOf({"code"}, ln - 1)

\* a report of a line that fits from its start and a line that has the
\* grammar after other text or without the dash: one Entry
C8_Witness ==
    /\ pc = "parsed"
    /\ \E k \in 1..Len(made) : made[k].fits = "loose"
    /\ \E k \in 1..Len(made) : made[k].fits = "code"
    /\ Len(entries) = 1

(***************************************************************************)
(* C9: a second run, with the same entries, on the workbook the first run *)
(* saved, saves a workbook with the same cell values and fills.           *)
(***************************************************************************)
C9_SecondRunSame == Len(outputs) >= 2 => outputs[2] = outputs[1]

=============================================================================
